---- MODULE Spec2Model ----
(***************************************************************************)
(* forest_sorter.py: sort every snapshot of an HDF5 halo catalogue by the   *)
(* configured sort fields and rewrite every temporal ID so that the        *)
(* cross-references between halos follow the new order.                     *)
(*                                                                         *)
(* Arrays are sequences; their elements are addressed 1..n here, while the  *)
(* VALUES that are halo indices (the entries of `indices`, the index part   *)
(* of a temporal ID) are the 0-based numbers the Python code uses.          *)
(***************************************************************************)
EXTENDS Integers, Sequences, FiniteSets, TLC

(* ------------------------------------------------------------------ *)
(* Bounds of the model                                                  *)
(* ------------------------------------------------------------------ *)

\* Largest number of halos in one snapshot.
MaxRecords == 2

\* Largest number of halos in the whole file.
MaxHalos == 3

\* Snapshot numbers of the first snapshot group of the file.
FirstSnapNums == {0, 1}

\* Number of snapshot groups in the file, as the set of their positions.
SnapPositions == {1, 2}

\* Values a sort field (ForestID) takes.
KeyValues == {0, 1}

\* How many entries of the reference field are not the -1 flag.
RefCounts == {0, 1}

\* The lists of sort fields (args["sort_fields"]): a secondary key switched
\* off, every key switched off, a secondary key the snapshots lack.
SortFieldChoices == {<<"ForestID", "None">>, <<"None">>, <<"ForestID", "Mass">>}

\* Multipliers (index_mult_factor): the smallest one, and one larger than
\* every halo count.
Multipliers == {1, MaxRecords + 1}

\* The base of the per-snapshot halo index inside a temporal ID.  The codec
\* lives in genesis.utils.common, outside this file: the design gives
\* snapnum*M + index (base 0), the comment at forest_sorter.py:192-198
\* describes the decoding as "subtract 1, divide, cast to integer" (base 1).
IdOffsets == {0, 1}

(* ------------------------------------------------------------------ *)
(* Names: key.upper() and the substring test of get_sort_indices are    *)
(* computed on the characters of a field name.                          *)
(* ------------------------------------------------------------------ *)

ForestIDName == "ForestID"
HeadName == "Head"
IDName == "ID"
MassName == "Mass"
NoneName == "None"
UnitsName == "Units"

\* The characters of a field name.
Characters(name) ==
    CASE name = "ForestID" -> <<"F", "o", "r", "e", "s", "t", "I", "D">>
      [] name = "Head" -> <<"H", "e", "a", "d">>
      [] name = "ID" -> <<"I", "D">>
      [] name = "Mass" -> <<"M", "a", "s", "s">>
      [] name = "None" -> <<"N", "o", "n", "e">>
      [] name = "Units" -> <<"U", "n", "i", "t", "s">>

\* The order in which h5py iterates the members of a group (by name).
FieldOrder == <<ForestIDName, HeadName, IDName, MassName, NoneName, UnitsName>>

LowerCase == <<"a", "b", "c", "d", "e", "f", "g", "h", "i", "j", "k", "l", "m",
               "n", "o", "p", "q", "r", "s", "t", "u", "v", "w", "x", "y", "z">>
UpperCase == <<"A", "B", "C", "D", "E", "F", "G", "H", "I", "J", "K", "L", "M",
               "N", "O", "P", "Q", "R", "S", "T", "U", "V", "W", "X", "Y", "Z">>

\* str.upper(), as the characters of the result
upper(key) ==
    LET chars == Characters(key)
    IN  [i \in 1..Len(chars) |->
            IF \E j \in 1..Len(LowerCase) : LowerCase[j] = chars[i]
            THEN UpperCase[CHOOSE j \in 1..Len(LowerCase) : LowerCase[j] = chars[i]]
            ELSE chars[i]]

\* sub in s, for strings
Contains(sub, s) ==
    \E i \in 0..(Len(s) - Len(sub)) :
        \A j \in 1..Len(sub) : s[i + j] = sub[j]

\* Group names of the file, in the order f_in.keys() yields them.
HeaderKey == "Header"
SnapLabels == <<"Snap_000", "Snap_001", "Snap_002", "Snap_003", "Snap_004">>
KeyOrder == <<HeaderKey>> \o SnapLabels

VARIABLES
    args,              \* the parsed arguments (parse_inputs)
    idOffset,          \* index base of the temporal ID codec
    f_in,              \* input file: group name -> field name -> array
    ID_maps,           \* snapshot number -> (old ID -> new ID)
    snapshot_indices,  \* snapshot group name -> sort permutation
    f_out,             \* output file: group name -> field name -> array
    written,           \* <<group, field>> pairs assigned by line 252
    pc,                \* "pass1", "pass2", "done", "aborted"
    snapPos,           \* position of the pass-1 loop in Snap_Keys
    keyPos,            \* position of the pass-2 loop in f_in.keys()
    fieldPos,          \* position of the inner loop (0: group not copied yet)
    error              \* the exception that ended the run, "" if none

vars == <<args, idOffset, f_in, ID_maps, snapshot_indices, f_out, written,
          pc, snapPos, keyPos, fieldPos, error>>

(* ------------------------------------------------------------------ *)
(* Helpers                                                              *)
(* ------------------------------------------------------------------ *)

Range(s) == {s[i] : i \in DOMAIN s}

Min(a, b) == IF a <= b THEN a ELSE b

\* d[k] = v on a Python dict
DictSet(d, k, v) == [x \in (DOMAIN d) \cup {k} |-> IF x = k THEN v ELSE d[x]]

\* dict(zip(keys, vals)): a later pair replaces an earlier one with the same key
ZipDict(keys, vals) ==
    [k \in Range(keys) |->
        vals[CHOOSE i \in DOMAIN keys :
                /\ keys[i] = k
                /\ \A j \in DOMAIN keys : keys[j] = k => j <= i]]

\* a[indices] (numpy fancy indexing, indices 0-based)
Take(a, indices) == [k \in 1..Len(indices) |-> a[indices[k] + 1]]

\* int(x / y) for y > 0: the cast truncates towards zero
TruncDiv(x, y) == IF x >= 0 THEN x \div y ELSE -((-x) \div y)

\* cmn.index_to_temporalID(index, snapnum, index_mult_factor)
index_to_temporalID(index, snapnum, mult) == snapnum * mult + index + idOffset

\* cmn.temporalID_to_snapnum(temporalID, index_mult_factor)
temporalID_to_snapnum(temporalID, mult) == TruncDiv(temporalID - idOffset, mult)

\* f_in.keys()
Keys(file) == SelectSeq(KeyOrder, LAMBDA k : k \in DOMAIN file)

\* the members of a group, in iteration order
Fields(group) == SelectSeq(FieldOrder, LAMBDA f : f \in DOMAIN group)

\* cmn.get_snapkeys_and_nums(f_in.keys())
Snap_Keys == SelectSeq(Keys(f_in), LAMBDA k : k \in Range(SnapLabels))
Snap_Nums == [k \in Range(SnapLabels) |->
                 (CHOOSE i \in 1..Len(SnapLabels) : SnapLabels[i] = k) - 1]

(* ------------------------------------------------------------------ *)
(* get_sort_indices                                                     *)
(* ------------------------------------------------------------------ *)

Reverse(s) == [i \in 1..Len(s) |-> s[Len(s) + 1 - i]]

\* Insert halo x into `sorted` behind every halo whose key is <= its own.
RECURSIVE InsertStable(_, _, _)
InsertStable(sorted, x, key) ==
    IF sorted = << >> THEN <<x>>
    ELSE IF key[Head(sorted) + 1] <= key[x + 1]
         THEN <<Head(sorted)>> \o InsertStable(Tail(sorted), x, key)
         ELSE <<x>> \o sorted

\* One stable sort of the halos of `perm` by `key` (one pass of np.lexsort).
RECURSIVE StableSortBy(_, _, _)
StableSortBy(perm, key, sorted) ==
    IF perm = << >> THEN sorted
    ELSE StableSortBy(Tail(perm), key, InsertStable(sorted, Head(perm), key))

\* np.lexsort(keys) for a non-empty tuple of keys: a stable sort by each key
\* in turn, from the first to the last, so that the last key is the primary.
RECURSIVE LexsortFrom(_, _, _)
LexsortFrom(keys, i, perm) ==
    IF i > Len(keys) THEN perm
    ELSE LexsortFrom(keys, i + 1, StableSortBy(perm, keys[i], << >>))

lexsort(keys) == LexsortFrom(keys, 1, [k \in 1..Len(keys[1]) |-> k - 1])

\* line 119: key is None or "NONE" in key.upper()
IsSkipped(key) == Contains(<<"N", "O", "N", "E">>, upper(key))

\* lines 117-121: the names of the fields that become sort keys
SortKeyNames(a) == SelectSeq(Reverse(a.sort_fields), LAMBDA key : ~IsSkipped(key))

\* get_sort_indices(file_in, snap_key, args): the permutation, or the
\* exception: KeyError of file_in[snap_key][key] for a field the snapshot
\* lacks, TypeError of np.lexsort for an empty tuple of keys.
get_sort_indices(file_in, snap_key, a) ==
    LET names == SortKeyNames(a)
    IN  IF \E i \in 1..Len(names) : names[i] \notin DOMAIN file_in[snap_key]
        THEN [error |-> "KeyError", indices |-> << >>]
        ELSE IF names = << >>
        THEN [error |-> "TypeError", indices |-> << >>]
        ELSE [error |-> "",
              indices |-> lexsort([i \in 1..Len(names) |-> file_in[snap_key][names[i]]])]

(* ------------------------------------------------------------------ *)
(* sort_and_write_file                                                  *)
(* ------------------------------------------------------------------ *)

\* Lookup with a default instead of the KeyError (ID_maps.get(snap, {}).get(ID, ID)).
LookupOrKeep(maps, snap, id) ==
    IF snap \in DOMAIN maps /\ id \in DOMAIN maps[snap]
    THEN [ok |-> TRUE, value |-> maps[snap][id]]
    ELSE [ok |-> TRUE, value |-> id]

\* ID_maps[snap][ID]: the value, or the KeyError of either subscript
Lookup(maps, snap, id) ==
    IF snap \in DOMAIN maps /\ id \in DOMAIN maps[snap]
    THEN [ok |-> TRUE, value |-> maps[snap][id]]
    ELSE [ok |-> FALSE, value |-> 0]

\* lines 241-245: the look-up of every value of an ID field
Remap(oldID, maps, mult) ==
    [i \in 1..Len(oldID) |->
        Lookup(maps, temporalID_to_snapnum(oldID[i], mult), oldID[i])]

\* lines 178-180: the new IDs of a snapshot of n halos
NewHaloIDs(n, snapnum, mult) ==
    [k \in 1..n |-> index_to_temporalID(k - 1, snapnum, mult)]

\* The loop positions behind the field at fieldPos of the group at keyPos.
NextPositions ==
    IF fieldPos < Len(Fields(f_in[Keys(f_in)[keyPos]]))
    THEN /\ keyPos' = keyPos
         /\ fieldPos' = fieldPos + 1
    ELSE /\ keyPos' = keyPos + 1
         /\ fieldPos' = 0

\* lines 162-190: one iteration of the first loop
BuildSnapshot ==
    /\ pc = "pass1"
    /\ snapPos <= Len(Snap_Keys)
    /\ LET snap_key == Snap_Keys[snapPos]
           res == get_sort_indices(f_in, snap_key, args)
           indices == res.indices
           old_haloIDs == f_in[snap_key][args.halo_id]
           old_haloIDs_sorted == Take(old_haloIDs, indices)
           new_haloIDs == NewHaloIDs(Len(indices), Snap_Nums[snap_key],
                                     args.index_mult_factor)
           oldIDs_to_newIDs == ZipDict(old_haloIDs_sorted, new_haloIDs)
       IN  IF Len(f_in[snap_key][args.halo_id]) = 0
           THEN /\ snapPos' = snapPos + 1
                /\ UNCHANGED <<ID_maps, snapshot_indices, pc, error>>
           ELSE IF res.error # ""
           THEN /\ pc' = "aborted"
                /\ error' = res.error
                /\ UNCHANGED <<ID_maps, snapshot_indices, snapPos>>
           ELSE /\ snapshot_indices' = DictSet(snapshot_indices, snap_key, indices)
                /\ ID_maps' = DictSet(ID_maps, Snap_Nums[snap_key], oldIDs_to_newIDs)
                /\ snapPos' = snapPos + 1
                /\ UNCHANGED <<pc, error>>
    /\ UNCHANGED <<args, idOffset, f_in, f_out, written, keyPos, fieldPos>>

\* line 199, behind the first loop: ID_maps[0] = {-1:-1}
InsertSentinel ==
    /\ pc = "pass1"
    /\ snapPos > Len(Snap_Keys)
    /\ ID_maps' = DictSet(ID_maps, 0, (-1 :> -1))
    /\ pc' = "pass2"
    /\ keyPos' = 1
    /\ fieldPos' = 0
    /\ UNCHANGED <<args, idOffset, f_in, snapshot_indices, f_out, written,
                   snapPos, error>>

\* lines 217-218: cmn.copy_group(f_in, f_out, key)
CopyGroup ==
    /\ pc = "pass2"
    /\ keyPos <= Len(Keys(f_in))
    /\ fieldPos = 0
    /\ LET key == Keys(f_in)[keyPos]
       IN  f_out' = DictSet(f_out, key, f_in[key])
    /\ NextPositions
    /\ UNCHANGED <<args, idOffset, f_in, ID_maps, snapshot_indices, written,
                   pc, snapPos, error>>

\* lines 231-236: the group has no halo ID field, or no halos
HasNoHalos(key) ==
    IF args.halo_id \notin DOMAIN f_in[key]
    THEN TRUE
    ELSE Len(f_in[key][args.halo_id]) = 0

SkipField ==
    /\ pc = "pass2"
    /\ keyPos <= Len(Keys(f_in))
    /\ fieldPos >= 1
    /\ HasNoHalos(Keys(f_in)[keyPos])
    /\ NextPositions
    /\ UNCHANGED <<args, idOffset, f_in, ID_maps, snapshot_indices, f_out,
                   written, pc, snapPos, error>>

\* WriteField without the permutation (f_out[key][field][:] = to_write).
WriteFieldUnsorted(key, field, to_write) ==
    /\ f_out' = [f_out EXCEPT ![key][field] = to_write]
    /\ written' = written \cup {<<key, field>>}

\* line 252: f_out[key][field][:] = to_write[snapshot_indices[key]]
WriteField(key, field, to_write) ==
    /\ f_out' = [f_out EXCEPT ![key][field] = Take(to_write, snapshot_indices[key])]
    /\ written' = written \cup {<<key, field>>}

\* lines 238-246, 252: a field that holds IDs
RewriteIDField ==
    /\ pc = "pass2"
    /\ keyPos <= Len(Keys(f_in))
    /\ fieldPos >= 1
    /\ ~HasNoHalos(Keys(f_in)[keyPos])
    /\ LET key == Keys(f_in)[keyPos]
           field == Fields(f_in[key])[fieldPos]
           oldID == f_in[key][field]
           newID == Remap(oldID, ID_maps, args.index_mult_factor)
       IN  /\ field \in args.ID_fields
           /\ IF \E i \in 1..Len(newID) : ~newID[i].ok
              THEN /\ pc' = "aborted"
                   /\ error' = "KeyError"
                   /\ UNCHANGED <<f_out, written, keyPos, fieldPos>>
              ELSE /\ WriteField(key, field, [i \in 1..Len(newID) |-> newID[i].value])
                   /\ NextPositions
                   /\ UNCHANGED <<pc, error>>
    /\ UNCHANGED <<args, idOffset, f_in, ID_maps, snapshot_indices, snapPos>>

\* lines 247-252: any other field
RewritePlainField ==
    /\ pc = "pass2"
    /\ keyPos <= Len(Keys(f_in))
    /\ fieldPos >= 1
    /\ ~HasNoHalos(Keys(f_in)[keyPos])
    /\ LET key == Keys(f_in)[keyPos]
           field == Fields(f_in[key])[fieldPos]
       IN  /\ field \notin args.ID_fields
           /\ WriteField(key, field, f_in[key][field])
    /\ NextPositions
    /\ UNCHANGED <<args, idOffset, f_in, ID_maps, snapshot_indices, pc,
                   snapPos, error>>

\* lines 254-258, behind the second loop
Finish ==
    /\ pc = "pass2"
    /\ keyPos > Len(Keys(f_in))
    /\ pc' = "done"
    /\ UNCHANGED <<args, idOffset, f_in, ID_maps, snapshot_indices, f_out,
                   written, snapPos, keyPos, fieldPos, error>>

(* ------------------------------------------------------------------ *)
(* The input files and arguments                                        *)
(* ------------------------------------------------------------------ *)

\* The IDs of a snapshot of n halos: the temporal ID of each position, or
\* that with the ID of the first halo repeated on another.
IDArrays(off, mult, snapnum, n) ==
    LET own == [i \in 1..n |-> snapnum * mult + (i - 1) + off]
    IN  {own} \cup {[own EXCEPT ![i] = own[1]] : i \in 1..n}

\* The values of a reference: the temporal IDs of the positions 0..MaxRecords-1
\* of every snapshot number up to the last one of the file.
RefValues(off, mult, first) ==
    {snapnum * mult + index + off :
        snapnum \in 0..(first + Cardinality(SnapPositions) - 1),
        index \in 0..(Min(MaxRecords, mult) - 1)}

\* All arrays of at most MaxRecords values of S.
Arrays(S) == UNION {[1..n -> S] : n \in 0..MaxRecords}

\* The sum of c over S.
RECURSIVE Total(_, _)
Total(c, S) ==
    IF S = {} THEN 0
    ELSE LET p == CHOOSE x \in S : TRUE IN c[p] + Total(c, S \ {p})

\* The halo counts of the snapshots of a file.
Counts(mult) ==
    {c \in [SnapPositions -> 0..Min(MaxRecords, mult)] :
        Total(c, SnapPositions) <= MaxHalos}

\* The sort field of every snapshot.
KeyArrays(c) ==
    {x \in [SnapPositions -> Arrays(KeyValues)] :
        \A p \in SnapPositions : Len(x[p]) = c[p]}

\* The ID field of every snapshot.
IDFields(c, off, mult, first) ==
    {x \in [SnapPositions -> UNION {IDArrays(off, mult, first + p - 1, c[p]) :
                                       p \in SnapPositions}] :
        \A p \in SnapPositions : x[p] \in IDArrays(off, mult, first + p - 1, c[p])}

\* The references of the file: the entries of Head that are not -1.
Refs(c, off, mult, first) ==
    LET Slots == {x \in SnapPositions \X (1..MaxRecords) : x[2] <= c[x[1]]}
    IN  UNION {[P -> RefValues(off, mult, first)] :
                  P \in {Q \in SUBSET Slots : Cardinality(Q) \in RefCounts}}

\* The file: a header group and the snapshot groups first, first + 1, ...
InputFile(c, fid, ids, refs, first) ==
    LET Group(p) ==
            (ForestIDName :> fid[p])
            @@ (HeadName :> [i \in 1..c[p] |->
                               IF <<p, i>> \in DOMAIN refs THEN refs[<<p, i>>] ELSE -1])
            @@ (IDName :> ids[p])
    IN  [k \in {HeaderKey} \cup {SnapLabels[first + p] : p \in SnapPositions} |->
            IF k = HeaderKey THEN (UnitsName :> <<1>>)
            ELSE Group(CHOOSE p \in SnapPositions : SnapLabels[first + p] = k)]

\* The fields of a snapshot group.
SnapshotFields == {ForestIDName, HeadName, IDName}

\* The lists of sort fields with which get_sort_indices raises nothing.
UsableSortFields ==
    {sf \in SortFieldChoices :
        LET names == SortKeyNames([sort_fields |-> sf])
        IN  names # << >> /\ Range(names) \subseteq SnapshotFields}

\* A run whose sort fields are unusable ends at the first non-empty snapshot
\* and never reads a reference: its files are drawn without references.
Init ==
    /\ idOffset \in IdOffsets
    /\ \E mult \in Multipliers, sf \in SortFieldChoices :
          args = [sort_fields |-> sf,
                  halo_id |-> IDName,
                  ID_fields |-> {HeadName, IDName},
                  index_mult_factor |-> mult]
    /\ \E first \in FirstSnapNums, c \in Counts(args.index_mult_factor) :
          \E fid \in KeyArrays(c),
             ids \in IDFields(c, idOffset, args.index_mult_factor, first),
             refs \in IF args.sort_fields \in UsableSortFields
                      THEN Refs(c, idOffset, args.index_mult_factor, first)
                      ELSE {<< >>} :
                f_in = InputFile(c, fid, ids, refs, first)
    /\ ID_maps = << >>
    /\ snapshot_indices = << >>
    /\ f_out = << >>
    /\ written = {}
    /\ pc = "pass1"
    /\ snapPos = 1
    /\ keyPos = 1
    /\ fieldPos = 0
    /\ error = ""

Next ==
    \/ BuildSnapshot
    \/ InsertSentinel
    \/ CopyGroup
    \/ SkipField
    \/ RewriteIDField
    \/ RewritePlainField
    \/ Finish

Spec == Init /\ [][Next]_vars

(* ------------------------------------------------------------------ *)
(* Vocabulary of the properties                                         *)
(* ------------------------------------------------------------------ *)

\* encode(s, i) of the design: the temporal ID of halo i of snapshot s
encode(s, i) == index_to_temporalID(i, s, args.index_mult_factor)

Snapshots == Range(Snap_Keys)
Count(key) == Len(f_in[key][args.halo_id])
NonEmptySnapshots == {key \in Snapshots : Count(key) > 0}
IDFieldsOf(key) == (DOMAIN f_in[key]) \cap args.ID_fields
PlainFieldsOf(key) == (DOMAIN f_in[key]) \ args.ID_fields

RunEnded == pc \in {"done", "aborted"}
AbortedInPass2 == pc = "aborted" /\ fieldPos >= 1
Pass1Finished == pc \in {"pass2", "done"} \/ AbortedInPass2

\* The group and field the second loop stands at (in pass 2, fieldPos >= 1).
CurKey == Keys(f_in)[keyPos]
CurField == Fields(f_in[CurKey])[fieldPos]

IsPermutation(indices, n) ==
    /\ Len(indices) = n
    /\ Range(indices) = 0..(n - 1)

\* The position (0-based) the sort gives halo i of the snapshot.
NewPos(key, i) ==
    CHOOSE k \in 0..(Count(key) - 1) : snapshot_indices[key][k + 1] = i

\* The ID field of every snapshot holds encode(s, i) at position i.
WellFormedIDs ==
    \A key \in Snapshots : \A i \in 1..Count(key) :
        f_in[key][args.halo_id][i] = encode(Snap_Nums[key], i - 1)

\* Some halo of a non-empty snapshot with the decoded number has ID v.
Mapped(v) ==
    \E key \in NonEmptySnapshots :
        /\ Snap_Nums[key] = temporalID_to_snapnum(v, args.index_mult_factor)
        /\ v \in Range(f_in[key][args.halo_id])

Dangling(v) == v # -1 /\ ~Mapped(v)

HasDangling(key, field) ==
    \E j \in 1..Len(f_in[key][field]) : Dangling(f_in[key][field][j])

\* The sort fields as the design reads them: the entries that are not "none".
ListedKeys == SelectSeq(args.sort_fields, LAMBDA key : upper(key) # <<"N", "O", "N", "E">>)

\* Every listed sort field is a field of every snapshot.
SortFieldsExist ==
    \A key \in Snapshots : Range(ListedKeys) \subseteq DOMAIN f_in[key]

\* An input without any defect, and a multiplier larger than 2: positional
\* unique IDs, existing sort fields, no dangling reference.
ValidInput ==
    /\ WellFormedIDs
    /\ SortFieldsExist
    /\ ListedKeys # << >>
    /\ args.index_mult_factor > 2
    /\ \A key \in NonEmptySnapshots : \A field \in IDFieldsOf(key) :
          ~HasDangling(key, field)

\* Halo a comes before halo b in the order of the listed keys of a group.
Before(group, keys, a, b) ==
    LET differ == {i \in 1..Len(keys) : group[keys[i]][a + 1] # group[keys[i]][b + 1]}
    IN  IF differ = {} THEN a < b
        ELSE LET i == CHOOSE x \in differ : \A y \in differ : x <= y
             IN  group[keys[i]][a + 1] < group[keys[i]][b + 1]

SortedAsListed(indices, group, keys) ==
    \A k1 \in 1..Len(indices), k2 \in 1..Len(indices) :
        k1 < k2 => Before(group, keys, indices[k1], indices[k2])

\* The example of the docstring of get_sort_indices (masses in units of 1e6).
ExampleFile ==
    [Snap_000 |-> [ForestID |-> <<1, 4, 39, 1, 1, 4>>,
                   Mass |-> <<4000, 100000, 800, 7000, 300000, 5>>]]
ExampleArgs == [sort_fields |-> <<"ForestID", "Mass">>]
LexsortExample ==
    get_sort_indices(ExampleFile, "Snap_000", ExampleArgs)
        = [error |-> "", indices |-> <<0, 3, 4, 5, 1, 2>>]

(* ------------------------------------------------------------------ *)
(* Properties                                                           *)
(* ------------------------------------------------------------------ *)

\* No non-empty snapshot has snapshot number 0.
NoHaloInSnapshotZero == \A key \in NonEmptySnapshots : Snap_Nums[key] # 0

\* The run is done and every reference to a halo of the file is written as
\* the new temporal ID of that halo, at the new position of its own halo.
AllReferencesRewritten ==
    /\ pc = "done"
    /\ \A key \in NonEmptySnapshots : \A field \in IDFieldsOf(key) :
             \A j \in 1..Count(key) :
               LET v == f_in[key][field][j]
               IN  v # -1 =>
                     \A target \in NonEmptySnapshots : \A i \in 0..(Count(target) - 1) :
                        v = encode(Snap_Nums[target], i) =>
                           f_out[key][field][NewPos(key, j - 1) + 1]
                              = encode(Snap_Nums[target], NewPos(target, i))

\* C1 (as claimed): on a valid input the run ends with every reference
\* v # -1 to halo i of snapshot s written as encode(s, k), k the new position
\* of that halo, whatever the snapshot number s is.
C1_CrossReferencesPreserved ==
    (RunEnded /\ ValidInput) => AllReferencesRewritten

\* C1 holds of the inputs without a halo in snapshot number 0.
C1_HoldsOffSnapshotZero ==
    (RunEnded /\ ValidInput /\ NoHaloInSnapshotZero) => AllReferencesRewritten

\* The table of a snapshot is one-to-one from its old IDs onto its new IDs,
\* and a run that has ended has written its ID field as the new IDs in order.
TableAndIDsOf(key) ==
          LET s == Snap_Nums[key]
              n == Count(key)
          IN  /\ s \in DOMAIN ID_maps
              /\ DOMAIN ID_maps[s] = Range(f_in[key][args.halo_id])
              /\ {ID_maps[s][v] : v \in DOMAIN ID_maps[s]} = {encode(s, k) : k \in 0..(n - 1)}
              /\ Cardinality(DOMAIN ID_maps[s]) = n
              /\ RunEnded =>
                    /\ <<key, args.halo_id>> \in written
                    /\ f_out[key][args.halo_id] = [k \in 1..n |-> encode(s, k - 1)]

\* C2 (as claimed): on a valid input, once pass 1 is over the table of every
\* non-empty snapshot s maps its old IDs one-to-one onto encode(s, 0..n-1),
\* and the run ends with its ID field written as encode(s, 0), ..., encode(s, n-1).
C2_RemapUnique ==
    (Pass1Finished /\ ValidInput) =>
        \A key \in NonEmptySnapshots : TableAndIDsOf(key)

\* C2 holds of the snapshots whose snapshot number is not 0, when no
\* snapshot number 0 ends the run before they are written.
C2_HoldsOffSnapshotZero ==
    (Pass1Finished /\ ValidInput /\ NoHaloInSnapshotZero) =>
        \A key \in NonEmptySnapshots : TableAndIDsOf(key)

\* No look-up of -1 has failed, and every -1 of a written ID field is -1 in
\* the output.
SentinelKept ==
    /\ AbortedInPass2 =>
          \A j \in 1..Len(f_in[CurKey][CurField]) :
             f_in[CurKey][CurField][j] = -1 =>
                Lookup(ID_maps, temporalID_to_snapnum(-1, args.index_mult_factor), -1).ok
    /\ \A w \in written :
          w[2] \in args.ID_fields =>
             \A j \in 1..Count(w[1]) :
                f_in[w[1]][w[2]][j] = -1 => f_out[w[1]][w[2]][NewPos(w[1], j - 1) + 1] = -1

\* C3 (as claimed): for every multiplier, the look-up of -1 never fails, and
\* every -1 of a written ID field is -1 in the output, at the new position of
\* its halo.
C3_SentinelInvariant == SentinelKept

\* C3 holds of the multipliers above 2.
C3_HoldsAboveTwo == args.index_mult_factor > 2 => SentinelKept

\* C4: a field with a dangling reference is never written: the run aborts
\* with the KeyError of the look-up at that field, so a run that is done met none.
C4_DanglingAborts ==
    /\ \A w \in written : w[2] \in args.ID_fields => ~HasDangling(w[1], w[2])
    /\ pc = "done" =>
          \A key \in NonEmptySnapshots : \A field \in IDFieldsOf(key) :
             ~HasDangling(key, field)
    /\ (pc = "pass2" /\ keyPos <= Len(Keys(f_in))) =>
          \A p \in 1..(keyPos - 1) :
             LET key == Keys(f_in)[p]
             IN  key \in NonEmptySnapshots =>
                    \A field \in IDFieldsOf(key) : ~HasDangling(key, field)

\* C4 witness: the second loop met a dangling reference and the run aborted
\* there, after other fields had been written.
C4_Witness ==
    /\ AbortedInPass2
    /\ error = "KeyError"
    /\ CurField \in args.ID_fields
    /\ HasDangling(CurKey, CurField)
    /\ <<CurKey, CurField>> \notin written
    /\ written # {}

\* C5 (as claimed): once the first loop has handled a snapshot whose ID field
\* repeats a value, the run is aborted and no field has been written.
C5_DuplicateIsFatal ==
    \A p \in 1..Len(Snap_Keys) :
       LET ids == f_in[Snap_Keys[p]][args.halo_id]
       IN  (\E i \in 1..Len(ids), j \in 1..Len(ids) : i # j /\ ids[i] = ids[j]) =>
              /\ snapPos <= p
              /\ written = {}

\* The first loop has not aborted at a non-empty snapshot, and the permutation
\* of every snapshot it has handled orders the halos by the listed keys.
AllSnapshotsResolved ==
          \A p \in 1..Len(Snap_Keys) :
             LET key == Snap_Keys[p]
             IN  key \in NonEmptySnapshots =>
                    /\ ~(pc = "aborted" /\ fieldPos = 0 /\ snapPos = p)
                    /\ key \in DOMAIN snapshot_indices =>
                          /\ IsPermutation(snapshot_indices[key], Count(key))
                          /\ SortedAsListed(snapshot_indices[key], f_in[key], ListedKeys)

\* C6 (as claimed): for every list of sort fields the snapshots hold (entries
\* "none" ignored), get_sort_indices gives a permutation that orders the halos
\* by the listed keys, the first one the primary, ties in their old order; and
\* the example of the docstring gives [0, 3, 4, 5, 1, 2].
C6_SortKeyResolver ==
    /\ LexsortExample
    /\ SortFieldsExist => AllSnapshotsResolved

\* C6 holds of the lists with a key that is not skipped.
C6_HoldsWithAKey ==
    (SortFieldsExist /\ SortKeyNames(args) # << >>) => AllSnapshotsResolved

\* C7 (as claimed): a run that aborts for a sort field that is missing or
\* for a dangling reference has written no field of the output.  (Stated for
\* inputs with positional IDs, no halo in snapshot 0 and a multiplier above 2,
\* where no other look-up fails.)
C7_NoPartialOutput ==
    (/\ pc = "aborted"
     /\ WellFormedIDs
     /\ args.index_mult_factor > 2
     /\ \A key \in NonEmptySnapshots : Snap_Nums[key] # 0
     /\ fieldPos >= 1 => HasDangling(CurKey, CurField))
        => written = {}

\* The table holds -1 -> -1 under 0 and, for every non-empty snapshot, its
\* permutation and an entry for each of its old IDs.
TableComplete ==
        /\ 0 \in DOMAIN ID_maps
        /\ -1 \in DOMAIN ID_maps[0]
        /\ ID_maps[0][-1] = -1
        /\ \A key \in NonEmptySnapshots :
              /\ key \in DOMAIN snapshot_indices
              /\ Snap_Nums[key] \in DOMAIN ID_maps
              /\ Range(f_in[key][args.halo_id]) \subseteq DOMAIN ID_maps[Snap_Nums[key]]

\* C8 (as claimed): on a valid input, once a field has been written, the table holds the
\* mapping and the permutation of every non-empty snapshot and the entry
\* -1 -> -1.
C8_TableCompleteAtWrite ==
    (written # {} /\ ValidInput) => TableComplete

\* C8 holds of the inputs without a halo in snapshot number 0.
C8_HoldsOffSnapshotZero ==
    (written # {} /\ ValidInput /\ NoHaloInSnapshotZero) => TableComplete

\* C8, the part about the table being frozen: no step changes the table or
\* the permutations once pass 2 has begun.
C8_TableFrozen ==
    [][pc = "pass2" => (ID_maps' = ID_maps /\ snapshot_indices' = snapshot_indices)]_vars

\* C9 (as claimed): on a valid input, once pass 1 is over, the table holds an entry for every
\* old ID of every non-empty snapshot, snapshot number 0 included, beside -1 -> -1.
C9_SentinelKeepsMappings ==
    (Pass1Finished /\ ValidInput) =>
        /\ Lookup(ID_maps, 0, -1) = [ok |-> TRUE, value |-> -1]
        /\ \A key \in NonEmptySnapshots : \A i \in 1..Count(key) :
              Lookup(ID_maps, Snap_Nums[key], f_in[key][args.halo_id][i]).ok

\* C9 holds of the inputs without a halo in snapshot number 0.
C9_HoldsOffSnapshotZero ==
    (Pass1Finished /\ ValidInput /\ NoHaloInSnapshotZero) => TableComplete

\* C10: every written field of a snapshot is its input (plain field) or its
\* remapped input (ID field) taken at the permutation of pass 1: position k
\* of every field comes from the one halo indices[k], and a plain field
\* keeps its values, each as often as before.
C10_RecordsMoveWhole ==
    \A w \in written :
       LET key == w[1]
           field == w[2]
           raw == f_in[key][field]
           out == f_out[key][field]
           indices == snapshot_indices[key]
       IN  /\ indices = get_sort_indices(f_in, key, args).indices
           /\ IsPermutation(indices, Count(key))
           /\ Len(out) = Count(key)
           /\ \A k \in 1..Count(key) :
                 LET v == raw[indices[k] + 1]
                 IN  IF field \in args.ID_fields
                     THEN out[k] = ID_maps[temporalID_to_snapnum(v, args.index_mult_factor)][v]
                     ELSE out[k] = v
           /\ field \notin args.ID_fields =>
                 \A x \in Range(raw) \cup Range(out) :
                    Cardinality({k \in 1..Len(raw) : raw[k] = x})
                       = Cardinality({k \in 1..Len(out) : out[k] = x})

\* C10 witness: a snapshot whose halos change places has its plain field and
\* a reference field, with a reference in it, written.
C10_Witness ==
    \E key \in NonEmptySnapshots :
       /\ <<key, ForestIDName>> \in written
       /\ <<key, HeadName>> \in written
       /\ snapshot_indices[key] # [k \in 1..Count(key) |-> k - 1]
       /\ \E j \in 1..Count(key) : f_in[key][HeadName][j] # -1
       /\ f_out[key][ForestIDName] # f_in[key][ForestIDName]

====
